---- MODULE Spec2Model ----
(***************************************************************************)
(* Model of the checkpoint indexing engine of sui-stack-hello-world/indexer *)
(* (ingestion.rs, processor.rs, lib.rs): the Regulator, the Broadcaster's   *)
(* run loop over a tokio broadcast channel, the Sequential and Concurrent   *)
(* pipelines, and the WatermarkStore handed to IngestionPipeline::new.      *)
(***************************************************************************)
EXTENDS Integers, Sequences, FiniteSets, TLC

\* ---------------------------------------------------------------- bounds
\* Highest sequence number the data source ever reports as latest.
MaxLatest == 5
\* Largest Regulator batch_size drawn at construction (0 is accepted by
\* Regulator::new).
MaxBatchSize == 2
\* buffer_size handed to broadcast::channel (100 in IngestionPipeline::new,
\* scaled down).
BufferSize == 3
\* batch_size of a Sequential pipeline (256 in Indexer::add_processor,
\* scaled down).
SeqBatchSize == 2
\* max_concurrent of a Concurrent pipeline (PipelineType::Concurrent).
MaxConcurrent == 2
\* Number of failures (fetch, verify, process, commit) injected in one run.
MaxFaults == 1
\* Largest sequence already held by the WatermarkStore that is handed to
\* IngestionPipeline::new (watermarks persisted by an earlier run).
MaxStored == 1
\* Number of messages other than Checkpoint (Error, Paused, Resumed,
\* Shutdown) sent on a channel driven directly.
MaxControl == 2
\* Largest sequence written to the WatermarkStore through its trait.
MaxSequence == 2

\* The pipelines added to the Indexer whose engine is followed end to end.
Pipelines == {"p1"}

\* The names a Processor can have (Processor::name): the per-pipeline state
\* is kept for each of them; those never added stay as constructed.
PipelineIds == {"p1", "p2"}

\* Pipeline ids used as keys of the WatermarkStore.
StoreIds == {"p1", "p2"}

\* What DataSourceProvider::get_latest_checkpoint can return in Ok: an empty
\* source or one holding MaxLatest checkpoints.
SourceLatest == {0, MaxLatest}

\* ---------------------------------------------------------------- state
VARIABLES
    batch_size,     \* Regulator.batch_size
    pipeline_type,  \* Indexer.config.pipeline_type
    hw,             \* Regulator.high_watermark
    lc,             \* Regulator.latest_checkpoint
    bpc,            \* position of Broadcaster::run
    start,          \* run: start of the window being fetched
    end,            \* run: end of the window being fetched
    sequence,       \* run: loop variable of `for sequence in start..=end`
    progress,       \* Broadcaster.progress
    chan,           \* every message stored in the broadcast channel, in order
    subscribers,    \* Broadcaster.subscribers
    pstate,         \* per pipeline: position of its run task
    next,           \* per pipeline: cursor of its broadcast::Receiver
    held,           \* Concurrent: sequence waiting for a semaphore permit
    batch,          \* Sequential: the pending batch (sequences)
    tasks,          \* Concurrent: the running process+commit tasks
    watermark,      \* per pipeline: watermark.checkpoint_sequence
    store,          \* the WatermarkStore: pipeline id -> sequence
    faults,         \* failures injected so far
    subPos,         \* history: channel position at subscribe()
    storedAtStart,  \* history: WatermarkStore value when the pipeline started
    received,       \* history: messages returned by recv()
    processed,      \* history: sequences passed to processor.process
    commits,        \* history: successful processor.commit calls
    fetchFailed,    \* history: sequences whose get_checkpoint returned Err
    unverified,     \* history: sequences whose verify_checkpoint did not return Ok(true)
    sent,           \* history: sequences of the Checkpoints passed to tx.send
    errored,        \* history: <<pipeline, call>> for each call that returned Err
    storeOps,       \* history: per id, the last WatermarkStore call made for it
    wpc,            \* position of PipelineExecutor::wait_all
    waitq,          \* wait_all: the JoinHandles still in PipelineExecutor.tasks
    closed          \* every broadcast::Sender of the channel has been dropped

vars == <<batch_size, pipeline_type, hw, lc, bpc, start, end, sequence,
          progress, chan, subscribers, pstate, next, held, batch, tasks,
          watermark, store, faults, subPos, storedAtStart, received,
          processed, commits, fetchFailed, unverified, sent, errored, storeOps,
          wpc, waitq, closed>>

regVars  == <<hw, lc>>
runVars  == <<bpc, start, end, sequence, progress>>
pipeVars == <<pstate, next, held, batch, tasks, watermark>>
histVars == <<subPos, storedAtStart, received, processed, commits, errored>>
cfgVars  == <<batch_size, pipeline_type, store, storeOps, wpc, waitq, closed>>

\* ---------------------------------------------------------------- helpers
Min(a, b) == IF a <= b THEN a ELSE b
Max(a, b) == IF a >= b THEN a ELSE b

RECURSIVE SeqMax(_)
SeqMax(s) == IF s = <<>> THEN 0 ELSE Max(Head(s), SeqMax(Tail(s)))

\* usize::next_power_of_two
RECURSIVE PowerOfTwoFrom(_, _)
PowerOfTwoFrom(p, n) == IF p >= n THEN p ELSE PowerOfTwoFrom(2 * p, n)
next_power_of_two(n) == PowerOfTwoFrom(1, n)

\* broadcast::channel(buffer_size): the channel keeps the most recent
\* Capacity messages; tokio rounds the requested capacity up to a power of
\* two ("the actual capacity may be greater than the provided capacity").
Capacity == next_power_of_two(BufferSize)

Checkpoint(k) == [type |-> "Checkpoint", seq |-> k]
Error(k)      == [type |-> "Error", seq |-> k]
\* IngestionMessage::Paused, Resumed and Shutdown carry no data.
Control(t)    == [type |-> t, seq |-> 0]

\* Receivers that are alive: the subscriber is owned by the pipeline's run
\* and dropped when run returns.
Live(p) == pstate[p] \in {"running", "acquire", "draining"}
rx_cnt == Cardinality({p \in PipelineIds : Live(p)})

\* broadcast::Sender::send: never blocks; with no receiver the value is
\* returned in Err and not stored; otherwise it takes the next slot, which
\* overwrites the oldest one once Capacity messages are stored.
send(m) == IF rx_cnt = 0 THEN chan ELSE Append(chan, m)

\* A channel that keeps twice as many slots as it allocated.
Oldest_wider == Max(0, Len(chan) - 2 * Capacity)

\* Position of the oldest message still stored.
Oldest == Max(0, Len(chan) - Capacity)
\* broadcast::Receiver::recv outcomes for the receiver of p.
Empty(p)  == next[p] = Len(chan)
Lagged(p) == next[p] < Oldest
Ready(p)  == ~Empty(p) /\ ~Lagged(p)
NextMsg(p) == chan[next[p] + 1]

\* ---------------------------------------------------------------- WatermarkStore
\* InMemoryWatermarkStore: a HashMap from pipeline id to sequence, here a
\* function whose domain is the set of keys present.

\* An insert that keeps the larger of the old and the new value.
store_update_watermark_max(st, pipeline_id, seq) ==
    [id \in DOMAIN st \cup {pipeline_id} |->
        IF id # pipeline_id THEN st[id]
        ELSE IF id \in DOMAIN st THEN Max(seq, st[id]) ELSE seq]

\* A reset that clears the whole map.
reset_watermark_all(st, pipeline_id) ==
    [id \in {} |-> 0]

\* update_watermark: HashMap::insert, which replaces the value of a key
\* already present.
store_update_watermark(st, pipeline_id, seq) ==
    [id \in DOMAIN st \cup {pipeline_id} |->
        IF id = pipeline_id THEN seq ELSE st[id]]

\* get_watermark: get(pipeline_id).copied().unwrap_or(0).
get_watermark(st, pipeline_id) ==
    IF pipeline_id \in DOMAIN st THEN st[pipeline_id] ELSE 0

\* reset_watermark: HashMap::remove.
reset_watermark(st, pipeline_id) ==
    [id \in DOMAIN st \ {pipeline_id} |-> st[id]]

\* No call made yet for an id.
NoCall == [op |-> "none", sequence |-> 0, before |-> 0, present |-> FALSE]

\* The state after IngestionPipeline::new and PipelineExecutor::new: the
\* Regulator at (0, 0), an empty channel, no subscriber, no pipeline spawned.
\* The Regulator's batch_size, the pipeline type and the content of the
\* WatermarkStore are the caller's.
Init ==
    /\ batch_size \in 0..MaxBatchSize
    /\ pipeline_type \in {"Sequential", "Concurrent"}
    /\ hw = 0
    /\ lc = 0
    /\ bpc = "init"
    /\ start = 0
    /\ end = 0
    /\ sequence = 0
    /\ progress = [last_fetched_checkpoint |-> 0, checkpoints_processed |-> 0]
    /\ chan = <<>>
    /\ subscribers = <<>>
    /\ pstate = [p \in PipelineIds |-> "none"]
    /\ next = [p \in PipelineIds |-> 0]
    /\ held = [p \in PipelineIds |-> 0]
    /\ batch = [p \in PipelineIds |-> <<>>]
    /\ tasks = [p \in PipelineIds |-> {}]
    /\ watermark = [p \in PipelineIds |-> 0]
    /\ store \in [Pipelines -> 0..MaxStored]
    /\ faults = 0
    /\ subPos = [p \in PipelineIds |-> 0]
    /\ storedAtStart = [p \in PipelineIds |-> 0]
    /\ received = [p \in PipelineIds |-> <<>>]
    /\ processed = [p \in PipelineIds |-> {}]
    /\ commits = [p \in PipelineIds |-> <<>>]
    /\ fetchFailed = {}
    /\ unverified = {}
    /\ sent = {}
    /\ errored = {}
    /\ storeOps = [id \in StoreIds |-> NoCall]
    /\ wpc = "idle"
    /\ waitq = <<>>
    /\ closed = FALSE

\* ---------------------------------------------------------------- Regulator
\* An update that leaves the watermark one below the end of the window.
update_watermark_short(h, checkpoint) == checkpoint - 1

\* Regulator::update_watermark
update_watermark(h, checkpoint) == IF checkpoint > h THEN checkpoint ELSE h

\* get_next_batch without the clamp to latest_checkpoint.
get_next_batch_unclamped(h, l, bs) == <<h + 1, h + 1 + bs - 1>>

\* get_next_batch starting at the watermark instead of one above it.
get_next_batch_refetch(h, l, bs) == <<h, Min(h + bs - 1, l)>>

\* Regulator::get_next_batch
get_next_batch(h, l, bs) ==
    LET s == h + 1
        e == Min(s + bs - 1, l)
    IN  <<s, e>>

\* Regulator::has_more_data
has_more_data == hw < lc

\* Regulator::set_latest_checkpoint
set_latest_checkpoint(l, checkpoint) == checkpoint

\* ---------------------------------------------------------------- Broadcaster::run
\* The first get_latest_checkpoint; `?` returns the error from run.
RunStart ==
    /\ bpc = "init"
    /\ \/ \E latest \in SourceLatest :
              /\ lc' = set_latest_checkpoint(lc, latest)
              /\ bpc' = "loop"
              /\ UNCHANGED faults
       \/ /\ faults < MaxFaults
          /\ faults' = faults + 1
          /\ bpc' = "failed"
          /\ UNCHANGED lc
    /\ UNCHANGED <<hw, start, end, sequence, progress, chan, subscribers,
                   fetchFailed, unverified, sent>>
    /\ UNCHANGED <<pipeVars, histVars, cfgVars>>

\* No more data: sleep, re-check latest, continue.
Idle ==
    /\ bpc = "loop"
    /\ ~has_more_data
    /\ \/ \E new_latest \in SourceLatest :
              /\ lc' = set_latest_checkpoint(lc, new_latest)
              /\ UNCHANGED faults
       \/ /\ faults < MaxFaults
          /\ faults' = faults + 1
          /\ UNCHANGED lc
    /\ UNCHANGED <<hw, bpc, start, end, sequence, progress, chan,
                   subscribers, fetchFailed, unverified, sent>>
    /\ UNCHANGED <<pipeVars, histVars, cfgVars>>

\* let (start, end) = self.regulator.get_next_batch().await;
NextBatch ==
    /\ bpc = "loop"
    /\ has_more_data
    /\ LET w == get_next_batch(hw, lc, batch_size)
       IN  /\ start' = w[1]
           /\ end' = w[2]
           /\ sequence' = w[1]
    /\ bpc' = "fetch"
    /\ UNCHANGED <<regVars, progress, chan, subscribers, faults, fetchFailed, unverified, sent>>
    /\ UNCHANGED <<pipeVars, histVars, cfgVars>>

\* get_checkpoint Ok, verify_checkpoint Ok(true): send and update progress.
FetchVerified ==
    /\ bpc = "fetch"
    /\ sequence <= end
    /\ chan' = send(Checkpoint(sequence))
    /\ progress' = [last_fetched_checkpoint |-> sequence,
                    checkpoints_processed |-> progress.checkpoints_processed + 1]
    /\ sent' = sent \cup {sequence}
    /\ sequence' = sequence + 1
    /\ UNCHANGED <<regVars, bpc, start, end, subscribers, faults, fetchFailed, unverified>>
    /\ UNCHANGED <<pipeVars, histVars, cfgVars>>

\* A run that sends the checkpoint whatever verify_checkpoint returned.
FetchUnverified_sending ==
    /\ bpc = "fetch"
    /\ sequence <= end
    /\ faults < MaxFaults
    /\ faults' = faults + 1
    /\ chan' = send(Checkpoint(sequence))
    /\ unverified' = unverified \cup {sequence}
    /\ sequence' = sequence + 1
    /\ UNCHANGED <<regVars, bpc, start, end, progress, subscribers,
                   fetchFailed, sent>>
    /\ UNCHANGED <<pipeVars, histVars, cfgVars>>

\* get_checkpoint Ok, verify_checkpoint not Ok(true): nothing is sent.
FetchUnverified ==
    /\ bpc = "fetch"
    /\ sequence <= end
    /\ faults < MaxFaults
    /\ faults' = faults + 1
    /\ unverified' = unverified \cup {sequence}
    /\ sequence' = sequence + 1
    /\ UNCHANGED <<regVars, bpc, start, end, progress, chan, subscribers,
                   fetchFailed, sent>>
    /\ UNCHANGED <<pipeVars, histVars, cfgVars>>

\* get_checkpoint Err: send IngestionMessage::Error.
FetchFailed ==
    /\ bpc = "fetch"
    /\ sequence <= end
    /\ faults < MaxFaults
    /\ faults' = faults + 1
    /\ chan' = send(Error(sequence))
    /\ fetchFailed' = fetchFailed \cup {sequence}
    /\ sequence' = sequence + 1
    /\ UNCHANGED <<regVars, bpc, start, end, progress, subscribers, sent,
                   unverified>>
    /\ UNCHANGED <<pipeVars, histVars, cfgVars>>

\* After the for loop: if end > 0 { regulator.update_watermark(end) }.
UpdateRegulator ==
    /\ bpc = "fetch"
    /\ sequence > end
    /\ hw' = IF end > 0 THEN update_watermark(hw, end) ELSE hw
    /\ bpc' = "loop"
    /\ UNCHANGED <<lc, start, end, sequence, progress, chan, subscribers,
                   faults, fetchFailed, unverified, sent>>
    /\ UNCHANGED <<pipeVars, histVars, cfgVars>>

\* ---------------------------------------------------------------- registration
\* Broadcaster::register_subscriber
register_subscriber(subs, id) ==
    IF \E i \in 1..Len(subs) : subs[i] = id THEN subs ELSE Append(subs, id)

\* Indexer::add_processor: IngestionPipeline::register_pipeline (register,
\* subscribe, PipelineSubscriber::new) and PipelineExecutor::spawn_* with a
\* new pipeline whose watermark is Watermark::default().
AddProcessor(p) ==
    /\ pstate[p] = "none"
    /\ subscribers' = register_subscriber(subscribers, p)
    /\ next' = [next EXCEPT ![p] = Len(chan)]
    /\ pstate' = [pstate EXCEPT ![p] = "running"]
    /\ subPos' = [subPos EXCEPT ![p] = Len(chan)]
    /\ storedAtStart' = [storedAtStart EXCEPT ![p] = get_watermark(store, p)]
    /\ UNCHANGED <<regVars, runVars, chan, held, batch, tasks, watermark,
                   faults, received, processed, commits, errored, fetchFailed, unverified, sent,
                   cfgVars>>

\* PipelineSubscriber::recv returning Ok(msg): the cursor moves by one.
Recv(p) ==
    /\ Ready(p)
    /\ next' = [next EXCEPT ![p] = next[p] + 1]
    /\ received' = [received EXCEPT ![p] = Append(received[p], NextMsg(p))]

\* PipelineSubscriber::recv returning Err(Lagged): the cursor jumps to the
\* oldest message still stored.
RecvLagged(p) ==
    /\ Lagged(p)
    /\ next' = [next EXCEPT ![p] = Oldest]
    /\ UNCHANGED received

\* ---------------------------------------------------------------- SequentialPipeline
Sequential(p) == pipeline_type = "Sequential" /\ pstate[p] = "running"

\* SequentialPipeline::commit_batch with processor.commit returning Ok:
\* the watermark is set to `sequence` and the batch is cleared.
CommitBatchOk(p, b, seq) ==
    /\ commits' = [commits EXCEPT ![p] =
                      Append(commits[p], [sequence |-> seq, items |-> b])]
    /\ watermark' = [watermark EXCEPT ![p] = seq]
    /\ batch' = [batch EXCEPT ![p] = <<>>]
    /\ UNCHANGED errored

\* SequentialPipeline::commit_batch with processor.commit returning Err:
\* `?` returns the error from commit_batch and from run; the batch is dropped
\* with run's locals.
CommitBatchErr(p) ==
    /\ faults < MaxFaults
    /\ faults' = faults + 1
    /\ pstate' = [pstate EXCEPT ![p] = "failed"]
    /\ batch' = [batch EXCEPT ![p] = <<>>]
    /\ errored' = errored \cup {<<p, "commit">>}
    /\ UNCHANGED <<watermark, commits>>

\* Ok(Checkpoint), process Ok, batch not yet full.
SeqProcess(p) ==
    /\ Sequential(p)
    /\ Recv(p)
    /\ NextMsg(p).type = "Checkpoint"
    /\ LET k == NextMsg(p).seq
       IN  /\ processed' = [processed EXCEPT ![p] = processed[p] \cup {k}]
           /\ Len(batch[p]) + 1 < SeqBatchSize
           /\ batch' = [batch EXCEPT ![p] = Append(batch[p], k)]
    /\ UNCHANGED <<regVars, runVars, chan, subscribers, pstate, held, tasks,
                   watermark, faults, subPos, storedAtStart, errored, commits,
                   fetchFailed, unverified, sent, cfgVars>>

\* Ok(Checkpoint), process Ok, batch.len() >= batch_size: commit_batch with
\* the sequence number of the checkpoint just processed.
SeqProcessCommit(p) ==
    /\ Sequential(p)
    /\ Recv(p)
    /\ NextMsg(p).type = "Checkpoint"
    /\ LET k == NextMsg(p).seq
       IN  /\ processed' = [processed EXCEPT ![p] = processed[p] \cup {k}]
           /\ Len(batch[p]) + 1 >= SeqBatchSize
           /\ \/ /\ CommitBatchOk(p, Append(batch[p], k), k)
                 /\ UNCHANGED <<pstate, faults>>
              \/ CommitBatchErr(p)
    /\ UNCHANGED <<regVars, runVars, chan, subscribers, held, tasks, subPos,
                   storedAtStart, fetchFailed, unverified, sent, cfgVars>>

\* A process error after which the checkpoint is put in the batch all the
\* same.
SeqProcessErr_batching(p) ==
    /\ Sequential(p)
    /\ Recv(p)
    /\ NextMsg(p).type = "Checkpoint"
    /\ faults < MaxFaults
    /\ faults' = faults + 1
    /\ processed' = [processed EXCEPT ![p] = processed[p] \cup {NextMsg(p).seq}]
    /\ errored' = errored \cup {<<p, "process">>}
    /\ batch' = [batch EXCEPT ![p] = Append(batch[p], NextMsg(p).seq)]
    /\ UNCHANGED <<regVars, runVars, chan, subscribers, pstate, held,
                   tasks, watermark, subPos, storedAtStart, commits,
                   fetchFailed, unverified, sent, cfgVars>>

\* Ok(Checkpoint), process Err: logged, nothing else.
SeqProcessErr(p) ==
    /\ Sequential(p)
    /\ Recv(p)
    /\ NextMsg(p).type = "Checkpoint"
    /\ faults < MaxFaults
    /\ faults' = faults + 1
    /\ processed' = [processed EXCEPT ![p] = processed[p] \cup {NextMsg(p).seq}]
    /\ errored' = errored \cup {<<p, "process">>}
    /\ UNCHANGED <<regVars, runVars, chan, subscribers, pstate, held, batch,
                   tasks, watermark, subPos, storedAtStart, commits,
                   fetchFailed, unverified, sent, cfgVars>>

\* Ok(Error): logged.
SeqError(p) ==
    /\ Sequential(p)
    /\ Recv(p)
    /\ NextMsg(p).type = "Error"
    /\ UNCHANGED <<regVars, runVars, chan, subscribers, pstate, held, batch,
                   tasks, watermark, faults, subPos, storedAtStart, errored, processed,
                   commits, fetchFailed, unverified, sent, cfgVars>>

\* Shutdown | Err(_): here Err(Lagged). Commit the remaining batch with the
\* maximum sequence in it, then break.
SeqShutdown(p) ==
    /\ Sequential(p)
    /\ RecvLagged(p)
    /\ IF batch[p] # <<>>
       THEN \/ /\ CommitBatchOk(p, batch[p], SeqMax(batch[p]))
               /\ pstate' = [pstate EXCEPT ![p] = "done"]
               /\ UNCHANGED faults
            \/ CommitBatchErr(p)
       ELSE /\ pstate' = [pstate EXCEPT ![p] = "done"]
            /\ UNCHANGED <<batch, watermark, commits, faults, errored>>
    /\ UNCHANGED <<regVars, runVars, chan, subscribers, held, tasks, subPos,
                   storedAtStart, processed, fetchFailed, unverified, sent, cfgVars>>

\* A Paused arm that calls commit_batch without testing batch.is_empty().
SeqPaused_unguarded(p) ==
    /\ Sequential(p)
    /\ Recv(p)
    /\ NextMsg(p).type = "Paused"
    /\ CommitBatchOk(p, batch[p], IF batch[p] = <<>> THEN 0 ELSE SeqMax(batch[p]))
    /\ UNCHANGED <<pstate, faults>>
    /\ UNCHANGED <<regVars, runVars, chan, subscribers, held, tasks, subPos,
                   storedAtStart, processed, fetchFailed, unverified, sent, cfgVars>>

\* Ok(Paused): commit the remaining batch, if any, with the maximum
\* sequence in it; the loop goes on.
SeqPaused(p) ==
    /\ Sequential(p)
    /\ Recv(p)
    /\ NextMsg(p).type = "Paused"
    /\ IF batch[p] # <<>>
       THEN \/ /\ CommitBatchOk(p, batch[p], SeqMax(batch[p]))
               /\ UNCHANGED <<pstate, faults>>
            \/ CommitBatchErr(p)
       ELSE UNCHANGED <<pstate, batch, watermark, commits, faults, errored>>
    /\ UNCHANGED <<regVars, runVars, chan, subscribers, held, tasks, subPos,
                   storedAtStart, processed, fetchFailed, unverified, sent, cfgVars>>

\* Ok(Resumed): logged.
SeqResumed(p) ==
    /\ Sequential(p)
    /\ Recv(p)
    /\ NextMsg(p).type = "Resumed"
    /\ UNCHANGED <<regVars, runVars, chan, subscribers, pstate, held, batch,
                   tasks, watermark, faults, subPos, storedAtStart, errored,
                   processed, commits, fetchFailed, unverified, sent, cfgVars>>

\* A Shutdown arm that breaks without committing the remaining batch.
SeqShutdownMsg_dropping(p) ==
    /\ Sequential(p)
    /\ Recv(p)
    /\ NextMsg(p).type = "Shutdown"
    /\ pstate' = [pstate EXCEPT ![p] = "done"]
    /\ batch' = [batch EXCEPT ![p] = <<>>]
    /\ UNCHANGED <<watermark, commits, faults, errored>>
    /\ UNCHANGED <<regVars, runVars, chan, subscribers, held, tasks, subPos,
                   storedAtStart, processed, fetchFailed, unverified, sent, cfgVars>>

\* Ok(Shutdown): commit the remaining batch with the maximum sequence in
\* it, then break.
SeqShutdownMsg(p) ==
    /\ Sequential(p)
    /\ Recv(p)
    /\ NextMsg(p).type = "Shutdown"
    /\ IF batch[p] # <<>>
       THEN \/ /\ CommitBatchOk(p, batch[p], SeqMax(batch[p]))
               /\ pstate' = [pstate EXCEPT ![p] = "done"]
               /\ UNCHANGED faults
            \/ CommitBatchErr(p)
       ELSE /\ pstate' = [pstate EXCEPT ![p] = "done"]
            /\ UNCHANGED <<batch, watermark, commits, faults, errored>>
    /\ UNCHANGED <<regVars, runVars, chan, subscribers, held, tasks, subPos,
                   storedAtStart, processed, fetchFailed, unverified, sent, cfgVars>>

\* A closed-channel arm that breaks without committing the remaining batch.
SeqClosed_dropping(p) ==
    /\ Sequential(p)
    /\ closed
    /\ Empty(p)
    /\ pstate' = [pstate EXCEPT ![p] = "done"]
    /\ batch' = [batch EXCEPT ![p] = <<>>]
    /\ UNCHANGED <<watermark, commits, faults, errored>>
    /\ UNCHANGED <<regVars, runVars, chan, subscribers, next, held, tasks,
                   subPos, storedAtStart, received, processed, fetchFailed,
                   unverified, sent, cfgVars>>

\* Err(_), here Err(Closed): every Sender is gone and the receiver has read
\* all that was sent. Same arm as Shutdown.
SeqClosed(p) ==
    /\ Sequential(p)
    /\ closed
    /\ Empty(p)
    /\ IF batch[p] # <<>>
       THEN \/ /\ CommitBatchOk(p, batch[p], SeqMax(batch[p]))
               /\ pstate' = [pstate EXCEPT ![p] = "done"]
               /\ UNCHANGED faults
            \/ CommitBatchErr(p)
       ELSE /\ pstate' = [pstate EXCEPT ![p] = "done"]
            /\ UNCHANGED <<batch, watermark, commits, faults, errored>>
    /\ UNCHANGED <<regVars, runVars, chan, subscribers, next, held, tasks,
                   subPos, storedAtStart, received, processed, fetchFailed,
                   unverified, sent, cfgVars>>

\* ---------------------------------------------------------------- ConcurrentPipeline
Concurrent(p) == pipeline_type = "Concurrent"

\* Ok(Checkpoint): the message is taken, then semaphore.acquire() is awaited.
ConcRecv(p) ==
    /\ Concurrent(p)
    /\ pstate[p] = "running"
    /\ Recv(p)
    /\ NextMsg(p).type = "Checkpoint"
    /\ held' = [held EXCEPT ![p] = NextMsg(p).seq]
    /\ pstate' = [pstate EXCEPT ![p] = "acquire"]
    /\ UNCHANGED <<regVars, runVars, chan, subscribers, batch, tasks,
                   watermark, faults, subPos, storedAtStart, errored, processed,
                   commits, fetchFailed, unverified, sent, cfgVars>>

\* Spawning without waiting for a permit.
ConcSpawn_unguarded(p) ==
    /\ Concurrent(p)
    /\ pstate[p] = "acquire"
    /\ tasks' = [tasks EXCEPT ![p] = @ \cup {[seq |-> held[p], stage |-> "process"]}]
    /\ held' = [held EXCEPT ![p] = 0]
    /\ pstate' = [pstate EXCEPT ![p] = "running"]
    /\ UNCHANGED <<regVars, runVars, chan, subscribers, next, batch,
                   watermark, faults, histVars, fetchFailed, unverified, sent, cfgVars>>

\* A permit is available: tokio::spawn the process+commit task.
ConcSpawn(p) ==
    /\ Concurrent(p)
    /\ pstate[p] = "acquire"
    /\ Cardinality(tasks[p]) < MaxConcurrent
    /\ tasks' = [tasks EXCEPT ![p] = @ \cup {[seq |-> held[p], stage |-> "process"]}]
    /\ held' = [held EXCEPT ![p] = 0]
    /\ pstate' = [pstate EXCEPT ![p] = "running"]
    /\ UNCHANGED <<regVars, runVars, chan, subscribers, next, batch,
                   watermark, faults, histVars, fetchFailed, unverified, sent, cfgVars>>

\* Task: processor.process returns Ok.
TaskProcess(p) ==
    /\ Concurrent(p)
    /\ \E t \in tasks[p] :
          /\ t.stage = "process"
          /\ processed' = [processed EXCEPT ![p] = processed[p] \cup {t.seq}]
          /\ tasks' = [tasks EXCEPT ![p] =
                          (@ \ {t}) \cup {[seq |-> t.seq, stage |-> "commit"]}]
    /\ UNCHANGED <<regVars, runVars, chan, subscribers, pstate, next, held,
                   batch, watermark, faults, subPos, storedAtStart, errored, received,
                   commits, fetchFailed, unverified, sent, cfgVars>>

\* A process error that ends the whole run with Err.
TaskProcessErr_fatal(p) ==
    /\ Concurrent(p)
    /\ faults < MaxFaults
    /\ faults' = faults + 1
    /\ \E t \in tasks[p] :
          /\ t.stage = "process"
          /\ processed' = [processed EXCEPT ![p] = processed[p] \cup {t.seq}]
          /\ tasks' = [tasks EXCEPT ![p] = @ \ {t}]
    /\ errored' = errored \cup {<<p, "process">>}
    /\ pstate' = [pstate EXCEPT ![p] = "failed"]
    /\ UNCHANGED <<regVars, runVars, chan, subscribers, next, held,
                   batch, watermark, subPos, storedAtStart, received,
                   commits, fetchFailed, unverified, sent, cfgVars>>

\* Task: processor.process returns Err; the task ends and drops its permit.
TaskProcessErr(p) ==
    /\ Concurrent(p)
    /\ faults < MaxFaults
    /\ faults' = faults + 1
    /\ \E t \in tasks[p] :
          /\ t.stage = "process"
          /\ processed' = [processed EXCEPT ![p] = processed[p] \cup {t.seq}]
          /\ tasks' = [tasks EXCEPT ![p] = @ \ {t}]
    /\ errored' = errored \cup {<<p, "process">>}
    /\ UNCHANGED <<regVars, runVars, chan, subscribers, pstate, next, held,
                   batch, watermark, subPos, storedAtStart, received,
                   commits, fetchFailed, unverified, sent, cfgVars>>

\* The watermark update without the `checkpoint_seq > wm` test.
task_watermark_unguarded(wm, checkpoint_seq) == checkpoint_seq

\* The watermark update with the comparison the wrong way round.
task_watermark_inverted(wm, checkpoint_seq) ==
    IF checkpoint_seq < wm THEN checkpoint_seq ELSE wm

\* The watermark update of a task whose commit succeeded.
task_watermark(wm, checkpoint_seq) ==
    IF checkpoint_seq > wm THEN checkpoint_seq ELSE wm

\* Task: processor.commit returns Ok; the watermark is raised if the task's
\* sequence is above it.
TaskCommit(p) ==
    /\ Concurrent(p)
    /\ \E t \in tasks[p] :
          /\ t.stage = "commit"
          /\ commits' = [commits EXCEPT ![p] =
                            Append(commits[p], [sequence |-> t.seq, items |-> <<t.seq>>])]
          /\ watermark' = [watermark EXCEPT ![p] = task_watermark(@, t.seq)]
          /\ tasks' = [tasks EXCEPT ![p] = @ \ {t}]
    /\ UNCHANGED <<regVars, runVars, chan, subscribers, pstate, next, held,
                   batch, faults, subPos, storedAtStart, errored, received, processed,
                   fetchFailed, unverified, sent, cfgVars>>

\* A task that updates the watermark whatever processor.commit returned.
TaskCommitErr_updating(p) ==
    /\ Concurrent(p)
    /\ faults < MaxFaults
    /\ faults' = faults + 1
    /\ \E t \in tasks[p] :
          /\ t.stage = "commit"
          /\ watermark' = [watermark EXCEPT ![p] = task_watermark(@, t.seq)]
          /\ tasks' = [tasks EXCEPT ![p] = @ \ {t}]
    /\ errored' = errored \cup {<<p, "commit">>}
    /\ UNCHANGED <<regVars, runVars, chan, subscribers, pstate, next, held,
                   batch, subPos, storedAtStart, received,
                   processed, commits, fetchFailed, unverified, sent, cfgVars>>

\* Task: processor.commit returns Err; the task ends Ok(()) without touching
\* the watermark.
TaskCommitErr(p) ==
    /\ Concurrent(p)
    /\ faults < MaxFaults
    /\ faults' = faults + 1
    /\ \E t \in tasks[p] :
          /\ t.stage = "commit"
          /\ tasks' = [tasks EXCEPT ![p] = @ \ {t}]
    /\ errored' = errored \cup {<<p, "commit">>}
    /\ UNCHANGED <<regVars, runVars, chan, subscribers, pstate, next, held,
                   batch, watermark, subPos, storedAtStart, received,
                   processed, commits, fetchFailed, unverified, sent, cfgVars>>

\* Ok(Error): logged.
ConcError(p) ==
    /\ Concurrent(p)
    /\ pstate[p] = "running"
    /\ Recv(p)
    /\ NextMsg(p).type = "Error"
    /\ UNCHANGED <<regVars, runVars, chan, subscribers, pstate, held, batch,
                   tasks, watermark, faults, subPos, storedAtStart, errored, processed,
                   commits, fetchFailed, unverified, sent, cfgVars>>

\* Ok(Shutdown): join_all(tasks) is awaited.
ConcShutdownMsg(p) ==
    /\ Concurrent(p)
    /\ pstate[p] = "running"
    /\ Recv(p)
    /\ NextMsg(p).type = "Shutdown"
    /\ pstate' = [pstate EXCEPT ![p] = "draining"]
    /\ UNCHANGED <<regVars, runVars, chan, subscribers, held, batch, tasks,
                   watermark, faults, subPos, storedAtStart, errored, processed,
                   commits, fetchFailed, unverified, sent, cfgVars>>

\* Err(_), here Err(Closed): every Sender is gone and the receiver has read
\* all that was sent. join_all(tasks) is awaited.
ConcClosed(p) ==
    /\ Concurrent(p)
    /\ pstate[p] = "running"
    /\ closed
    /\ Empty(p)
    /\ pstate' = [pstate EXCEPT ![p] = "draining"]
    /\ UNCHANGED <<regVars, runVars, chan, subscribers, next, held, batch,
                   tasks, watermark, faults, histVars, fetchFailed, unverified,
                   sent, cfgVars>>

\* Shutdown | Err(_): here Err(Lagged). join_all(tasks) is awaited.
ConcShutdown(p) ==
    /\ Concurrent(p)
    /\ pstate[p] = "running"
    /\ RecvLagged(p)
    /\ pstate' = [pstate EXCEPT ![p] = "draining"]
    /\ UNCHANGED <<regVars, runVars, chan, subscribers, held, batch, tasks,
                   watermark, faults, subPos, storedAtStart, errored, processed,
                   commits, fetchFailed, unverified, sent, cfgVars>>

\* A break that does not wait for the spawned tasks.
ConcJoined_detached(p) ==
    /\ Concurrent(p)
    /\ pstate[p] = "draining"
    /\ pstate' = [pstate EXCEPT ![p] = "done"]
    /\ UNCHANGED <<regVars, runVars, chan, subscribers, next, held, batch,
                   tasks, watermark, faults, histVars, fetchFailed, unverified, sent, cfgVars>>

\* join_all has returned: break, run returns Ok(()).
ConcJoined(p) ==
    /\ Concurrent(p)
    /\ pstate[p] = "draining"
    /\ tasks[p] = {}
    /\ pstate' = [pstate EXCEPT ![p] = "done"]
    /\ UNCHANGED <<regVars, runVars, chan, subscribers, next, held, batch,
                   tasks, watermark, faults, histVars, fetchFailed, unverified, sent, cfgVars>>

\* ---------------------------------------------------------------- specification
BroadcasterStep ==
    \/ RunStart
    \/ Idle
    \/ NextBatch
    \/ FetchVerified
    \/ FetchUnverified
    \/ FetchFailed
    \/ UpdateRegulator

PipelineStep(p) ==
    \/ AddProcessor(p)
    \/ SeqProcess(p)
    \/ SeqProcessCommit(p)
    \/ SeqProcessErr(p)
    \/ SeqError(p)
    \/ SeqShutdown(p)
    \/ ConcRecv(p)
    \/ ConcSpawn(p)
    \/ TaskProcess(p)
    \/ TaskProcessErr(p)
    \/ TaskCommit(p)
    \/ TaskCommitErr(p)
    \/ ConcError(p)
    \/ ConcShutdown(p)
    \/ ConcJoined(p)

Next == BroadcasterStep \/ \E p \in Pipelines : PipelineStep(p)

Spec == Init /\ [][Next]_vars

TypeOK ==
    /\ hw \in 0..MaxLatest
    /\ lc \in 0..MaxLatest
    /\ \A p \in Pipelines : next[p] \in 0..Len(chan)

\* ---------------------------------------------------------------- a pipeline on a channel of its own
\* SequentialPipeline::run takes any PipelineSubscriber, and
\* PipelineSubscriber::new any broadcast::Receiver<IngestionMessage>: here
\* the Sender is held by a caller that, once the pipeline has subscribed and
\* while it runs, sends the Checkpoints 1, 2, ... in order and, between
\* them, any of the other IngestionMessage variants. Broadcaster::run is
\* not started.
ControlsSent ==
    Cardinality({i \in 1..Len(chan) : chan[i].type # "Checkpoint"})

SendCheckpoint ==
    /\ ~closed
    /\ rx_cnt > 0
    /\ Cardinality(sent) < MaxLatest
    /\ chan' = send(Checkpoint(Cardinality(sent) + 1))
    /\ sent' = sent \cup {Cardinality(sent) + 1}
    /\ UNCHANGED <<regVars, runVars, pipeVars, histVars, subscribers, faults,
                   fetchFailed, unverified, cfgVars>>

SendControl ==
    /\ ~closed
    /\ rx_cnt > 0
    /\ ControlsSent < MaxControl
    /\ \E t \in {"Error", "Paused", "Resumed", "Shutdown"} :
          chan' = send(Control(t))
    /\ UNCHANGED <<regVars, runVars, pipeVars, histVars, subscribers, faults,
                   fetchFailed, unverified, sent, cfgVars>>

\* The caller drops its Sender, the only one: the channel is closed.
DropSender ==
    /\ ~closed
    /\ rx_cnt > 0
    /\ closed' = TRUE
    /\ UNCHANGED <<regVars, runVars, pipeVars, histVars, chan, subscribers,
                   faults, fetchFailed, unverified, sent, batch_size,
                   pipeline_type, store, storeOps, wpc, waitq>>

SequentialRun(p) ==
    \/ AddProcessor(p)
    \/ SeqProcess(p)
    \/ SeqProcessCommit(p)
    \/ SeqProcessErr(p)
    \/ SeqError(p)
    \/ SeqPaused(p)
    \/ SeqResumed(p)
    \/ SeqShutdownMsg(p)
    \/ SeqShutdown(p)
    \/ SeqClosed(p)

SequentialNext ==
    \/ SendCheckpoint
    \/ SendControl
    \/ DropSender
    \/ \E p \in Pipelines : SequentialRun(p)

\* Indexer::new is not involved: the Regulator and the WatermarkStore keep
\* one value.
InitSequential ==
    /\ Init
    /\ pipeline_type = "Sequential"
    /\ batch_size = MaxBatchSize
    /\ store = [p \in Pipelines |-> 0]

SpecSequential == InitSequential /\ [][SequentialNext]_vars

\* The same caller with a ConcurrentPipeline: it sends the Checkpoints in
\* order, then Shutdown, or drops its Sender.
ShutdownSent == \E i \in 1..Len(chan) : chan[i].type = "Shutdown"

SendCheckpointBeforeShutdown ==
    /\ ~ShutdownSent
    /\ SendCheckpoint

SendShutdown ==
    /\ ~closed
    /\ rx_cnt > 0
    /\ ~ShutdownSent
    /\ chan' = send(Control("Shutdown"))
    /\ UNCHANGED <<regVars, runVars, pipeVars, histVars, subscribers, faults,
                   fetchFailed, unverified, sent, cfgVars>>

ConcurrentRun(p) ==
    \/ AddProcessor(p)
    \/ ConcRecv(p)
    \/ ConcSpawn(p)
    \/ TaskProcess(p)
    \/ TaskProcessErr(p)
    \/ TaskCommit(p)
    \/ TaskCommitErr(p)
    \/ ConcShutdownMsg(p)
    \/ ConcShutdown(p)
    \/ ConcClosed(p)
    \/ ConcJoined(p)

ConcurrentNext ==
    \/ SendCheckpointBeforeShutdown
    \/ SendShutdown
    \/ DropSender
    \/ \E p \in Pipelines : ConcurrentRun(p)

InitConcurrent ==
    /\ Init
    /\ pipeline_type = "Concurrent"
    /\ batch_size = MaxBatchSize
    /\ store = [p \in Pipelines |-> 0]

SpecConcurrent == InitConcurrent /\ [][ConcurrentNext]_vars

\* ---------------------------------------------------------------- cancellation
\* Broadcaster::run takes no cancellation token and has no branch that
\* returns from its loop: the one way to cancel it is to stop polling the
\* task Indexer::start spawned for it (abort, or the runtime going down),
\* which ends run at whichever await it is suspended on. The Broadcaster,
\* and with it the Sender, stays alive in the Arc held by the Indexer.
Cancel ==
    /\ bpc \in {"loop", "fetch"}
    /\ bpc' = "cancelled"
    /\ UNCHANGED <<regVars, start, end, sequence, progress, chan, subscribers,
                   faults, fetchFailed, unverified, sent>>
    /\ UNCHANGED <<pipeVars, histVars, cfgVars>>

CancelNext ==
    \/ BroadcasterStep
    \/ Cancel
    \/ \E p \in Pipelines :
          \/ AddProcessor(p)
          \/ SeqProcess(p)
          \/ SeqProcessCommit(p)
          \/ SeqProcessErr(p)
          \/ SeqError(p)
          \/ SeqShutdown(p)

\* An Indexer configured with PipelineType::Sequential.
InitSequentialIndexer ==
    /\ Init
    /\ pipeline_type = "Sequential"
    /\ batch_size = MaxBatchSize
    /\ store = [p \in Pipelines |-> 0]

SpecCancel == InitSequentialIndexer /\ [][CancelNext]_vars

\* ---------------------------------------------------------------- WatermarkStore calls
\* Everything but the WatermarkStore and its call history.
engineVars == <<batch_size, pipeline_type, regVars, runVars, pipeVars,
                histVars, chan, subscribers, faults, fetchFailed, unverified, sent,
                closed>>

\* WatermarkStore::update_watermark(pipeline_id, sequence) on the store.
StoreUpdate(pipeline_id, seq) ==
    /\ store' = store_update_watermark(store, pipeline_id, seq)
    /\ storeOps' = [storeOps EXCEPT ![pipeline_id] =
                        [op |-> "update", sequence |-> seq,
                         before |-> get_watermark(store, pipeline_id),
                         present |-> pipeline_id \in DOMAIN store]]
    /\ UNCHANGED <<engineVars, wpc, waitq>>

\* WatermarkStore::reset_watermark(pipeline_id) on the store.
StoreReset(pipeline_id) ==
    /\ store' = reset_watermark(store, pipeline_id)
    /\ storeOps' = [storeOps EXCEPT ![pipeline_id] =
                        [op |-> "reset", sequence |-> 0,
                         before |-> get_watermark(store, pipeline_id),
                         present |-> pipeline_id \in DOMAIN store]]
    /\ UNCHANGED <<engineVars, wpc, waitq>>

\* Calls made on the store handed to IngestionPipeline::new, by any holder
\* of the Arc<dyn WatermarkStore>.
StoreNext ==
    \E pipeline_id \in StoreIds :
        \/ \E seq \in 0..MaxSequence : StoreUpdate(pipeline_id, seq)
        \/ StoreReset(pipeline_id)

SpecStore == Init /\ [][StoreNext]_vars

\* ---------------------------------------------------------------- two pipelines
\* Indexer::add_processor called for two processors: both pipelines read
\* the one broadcast channel.
SequentialStep(p) ==
    \/ AddProcessor(p)
    \/ SeqProcess(p)
    \/ SeqProcessCommit(p)
    \/ SeqProcessErr(p)
    \/ SeqError(p)
    \/ SeqShutdown(p)

PairNext == BroadcasterStep \/ \E p \in PipelineIds : SequentialStep(p)

SpecPair == InitSequentialIndexer /\ [][PairNext]_vars

\* ---------------------------------------------------------------- unregistration
\* Broadcaster::unregister_subscriber: subs.retain(|s| s != subscriber_id)
unregister_subscriber(subs, id) == SelectSeq(subs, LAMBDA s : s # id)

\* unregister_subscriber called for a registered pipeline while the engine
\* runs. Only the Vec of ids changes: the pipeline keeps its Receiver.
UnregisterSubscriber(p) ==
    /\ \E i \in 1..Len(subscribers) : subscribers[i] = p
    /\ subscribers' = unregister_subscriber(subscribers, p)
    /\ UNCHANGED <<regVars, runVars, pipeVars, histVars, chan, faults,
                   fetchFailed, unverified, sent, cfgVars>>

UnregisterNext ==
    \/ BroadcasterStep
    \/ \E p \in PipelineIds :
          \/ SequentialStep(p)
          \/ UnregisterSubscriber(p)

SpecUnregister == InitSequentialIndexer /\ [][UnregisterNext]_vars

\* ---------------------------------------------------------------- PipelineExecutor
\* Everything but the position of wait_all.
indexerVars == <<engineVars, store, storeOps>>

\* Indexer::add_processor before Indexer::start: spawn_* takes the lock on
\* PipelineExecutor.tasks, which wait_all holds for as long as it runs.
SpawnPipeline(p) ==
    /\ wpc = "idle"
    /\ AddProcessor(p)

\* wait_all is entered: `let mut tasks = self.tasks.lock().await`. The Vec
\* holds one JoinHandle per add_processor call, in the order of
\* registration.
WaitAll ==
    /\ wpc = "idle"
    /\ subscribers # <<>>
    /\ wpc' = "waiting"
    /\ waitq' = subscribers
    /\ UNCHANGED indexerVars

\* `while let Some(task) = tasks.pop() { task.await??; }`: the handle
\* pushed last is awaited; when its run has returned Ok the loop goes on,
\* when it has returned Err the `?` returns that error from wait_all and
\* the handles not yet popped stay in the Vec.
WaitJoin ==
    /\ wpc = "waiting"
    /\ waitq # <<>>
    /\ LET task == waitq[Len(waitq)]
       IN  /\ pstate[task] \in {"done", "failed"}
           /\ wpc' = IF pstate[task] = "failed" THEN "err" ELSE "waiting"
    /\ waitq' = SubSeq(waitq, 1, Len(waitq) - 1)
    /\ UNCHANGED indexerVars

\* The Vec is empty: Ok(()).
WaitReturn ==
    /\ wpc = "waiting"
    /\ waitq = <<>>
    /\ wpc' = "ok"
    /\ UNCHANGED <<indexerVars, waitq>>

\* PipelineExecutor.tasks: the JoinHandles pushed by spawn_* and not yet
\* popped by wait_all.
executor_tasks == IF wpc = "idle" THEN subscribers ELSE waitq

\* `let mut tasks = self.tasks.lock().await` in wait_all: the guard lives
\* until wait_all returns, across every `task.await`.
tasks_locked == wpc = "waiting"

\* JoinHandle::is_finished of the handle of pipeline p.
is_finished(p) == ~Live(p)

\* A count of every handle in the Vec, finished or not.
active_count_len == Len(executor_tasks) + 0

\* tasks.iter().filter(|t| !t.is_finished()).count()
active_count ==
    Cardinality({i \in 1..Len(executor_tasks) : ~is_finished(executor_tasks[i])})

ExecutorNext ==
    \/ BroadcasterStep
    \/ WaitAll
    \/ WaitJoin
    \/ WaitReturn
    \/ \E p \in PipelineIds :
          \/ SpawnPipeline(p)
          \/ SeqProcess(p)
          \/ SeqProcessCommit(p)
          \/ SeqProcessErr(p)
          \/ SeqError(p)
          \/ SeqShutdown(p)

SpecExecutor == InitSequentialIndexer /\ [][ExecutorNext]_vars

\* ---------------------------------------------------------------- properties
\* PipelineConfig.start_checkpoint as set by IndexerBuilder::new.
start_checkpoint == 1

Range(s) == {s[i] : i \in 1..Len(s)}

\* Pipeline p had no process or commit call return an error.
NeverErrored(p) == \A call \in {"process", "commit"} : <<p, call>> \notin errored

\* Checkpoint messages stored in the channel that p has not yet received.
Unreceived(p) ==
    Cardinality({i \in (Max(next[p], Oldest) + 1)..Len(chan) :
                    chan[i].type = "Checkpoint"})

\* Number of successful commits of p that contain sequence k.
CommitsWith(p, k) ==
    Cardinality({i \in 1..Len(commits[p]) : k \in Range(commits[p][i].items)})

\* Lowest watermark among the registered pipelines.
MinWatermark ==
    CHOOSE m \in {watermark[p] : p \in Range(subscribers)} :
        \A p \in Range(subscribers) : m <= watermark[p]

\* C1: in either mode, every step leaves each pipeline's watermark at or
\* above its previous value.
C1_MonotonicWatermark ==
    [][\A p \in Pipelines : watermark'[p] >= watermark[p]]_vars

\* C1 witness: a commit for a lower sequence completed after a higher one,
\* and the watermark stayed at the higher one.
C1_Witness ==
    \E p \in Pipelines :
        /\ Len(commits[p]) >= 2
        /\ commits[p][Len(commits[p])].sequence < watermark[p]

\* C2: a pipeline started while the WatermarkStore holds W > 0 for its id
\* never passes a checkpoint with sequence <= W to process.
C2_CatchUpSkip ==
    \A p \in Pipelines : \A k \in processed[p] : k > storedAtStart[p]

\* C3: for every live pipeline, every sequence in
\* [start_checkpoint, watermark] has been passed to process.
C3_AtLeastOnce ==
    \A p \in Pipelines :
        Live(p) => \A k \in start_checkpoint..watermark[p] : k \in processed[p]

\* C4: for a Sequential pipeline with no process or commit error, every
\* sequence in [start_checkpoint, watermark] is in exactly one committed
\* batch.
C4_NoGapsOrdered ==
    \A p \in Pipelines :
        (pipeline_type = "Sequential" /\ NeverErrored(p)) =>
            \A k \in start_checkpoint..watermark[p] : CommitsWith(p, k) = 1

\* C5: while a window is being fetched, its start is above the Regulator's
\* watermark and the sequence about to be fetched is at most
\* latest_checkpoint.
C5_RegulatorSafety ==
    bpc = "fetch" =>
        /\ start > hw
        /\ sequence <= end => sequence <= lc

\* C5 witness: a fetch is pending in a window after the first one that the
\* clamp to latest_checkpoint cut short.
C5_Witness ==
    /\ bpc = "fetch"
    /\ sequence <= end
    /\ hw > 0
    /\ end = lc
    /\ end < start + batch_size - 1

C7_SendBlocksWhenFull ==
    \A p \in Pipelines : Live(p) => Len(chan) - next[p] <= Capacity

\* C8: the Regulator is never advanced to or past a sequence whose fetch
\* failed and whose Checkpoint has not been sent.
C8_FailedFetchNotPassed ==
    \A k \in fetchFailed : k \in sent \/ hw < k

\* C9: every fetch window taken while pipelines are registered starts at
\* the lowest watermark among them plus one.
C9_WindowStartsAtMinCommitted ==
    [][(NextBatch /\ subscribers # <<>>) => start' = MinWatermark + 1]_vars

\* C10: what a subscriber has received is exactly the run of messages
\* stored from its subscribe() up to its cursor, in order and without a
\* skipped message.
C10_ReceivesExactlyPublished ==
    \A p \in Pipelines :
        pstate[p] # "none" => received[p] = SubSeq(chan, subPos[p] + 1, next[p])

\* Highest sequence among the successful commits of p, 0 when there is none.
MaxCommitted(p) ==
    IF commits[p] = <<>> THEN 0
    ELSE CHOOSE m \in {commits[p][i].sequence : i \in 1..Len(commits[p])} :
             \A i \in 1..Len(commits[p]) : commits[p][i].sequence <= m

\* C11: a step changes a pipeline's watermark only together with a
\* successful commit, whose sequence the new watermark is; a step in which
\* process or commit fails leaves every watermark unchanged.
C11_WatermarkOnlyOnCommit ==
    [][/\ \A p \in Pipelines :
             watermark'[p] # watermark[p] =>
                 /\ Len(commits'[p]) = Len(commits[p]) + 1
                 /\ commits'[p][Len(commits'[p])].sequence = watermark'[p]
       /\ errored' # errored => watermark' = watermark]_vars

\* C11 witness: a commit has failed after an earlier one succeeded, and the
\* watermark is the sequence of a successful commit.
C11_Witness ==
    \E p \in Pipelines :
        /\ <<p, "commit">> \in errored
        /\ watermark[p] > 0
        /\ \E i \in 1..Len(commits[p]) : commits[p][i].sequence = watermark[p]

\* C12: once a Sequential pipeline has committed, the WatermarkStore holds
\* the pipeline's watermark under its id.
C12_StoreFollowsCommit ==
    \A p \in Pipelines :
        (pipeline_type = "Sequential" /\ commits[p] # <<>>) =>
            store[p] = watermark[p]

\* C13: the sequences of the successive commits of a Sequential pipeline are
\* strictly increasing.
C13_CommitsStrictlyIncreasing ==
    \A p \in Pipelines :
        pipeline_type = "Sequential" =>
            \A i, j \in 1..Len(commits[p]) :
                i < j => commits[p][i].sequence < commits[p][j].sequence

\* C13 witness: a Sequential pipeline has committed twice.
C13_Witness ==
    \E p \in Pipelines :
        pipeline_type = "Sequential" /\ Len(commits[p]) >= 2

\* C15: a Concurrent pipeline never has more than max_concurrent
\* process+commit tasks running.
C15_AtMostMaxConcurrentTasks ==
    \A p \in Pipelines : Cardinality(tasks[p]) <= MaxConcurrent

\* C15 witness: max_concurrent tasks are running and a further checkpoint
\* is waiting for a permit.
C15_Witness ==
    \E p \in Pipelines :
        /\ pstate[p] = "acquire"
        /\ held[p] > 0
        /\ Cardinality(tasks[p]) = MaxConcurrent

\* C16: the watermark of a Concurrent pipeline is the highest sequence among
\* its successful commits, whatever order they completed in.
C16_WatermarkIsHighestCommitted ==
    \A p \in Pipelines :
        pipeline_type = "Concurrent" => watermark[p] = MaxCommitted(p)

\* C16 witness: two commits completed in the reverse order of their
\* sequences.
C16_Witness ==
    \E p \in Pipelines :
        /\ pipeline_type = "Concurrent"
        /\ \E i, j \in 1..Len(commits[p]) :
               i < j /\ commits[p][i].sequence > commits[p][j].sequence

\* C19: every window the Regulator hands out is
\* {watermark + 1, min(watermark + batch_size, latest)} and satisfies
\* start <= end <= latest.
C19_WindowWellFormed ==
    [][NextBatch =>
          /\ start' = hw + 1
          /\ end' = Min(hw + batch_size, lc)
          /\ start' <= end'
          /\ end' <= lc]_vars

\* C20: when verification of a fetched checkpoint does not return true while
\* a subscriber is live, the Broadcaster sends an Error message.
C20_ErrorOnUnverified ==
    [][(FetchUnverified /\ rx_cnt > 0) =>
          /\ Len(chan') = Len(chan) + 1
          /\ chan'[Len(chan')].type = "Error"]_vars

\* C17: get_watermark(id) returns the sequence of the most recent
\* update_watermark(id, _), also when that sequence is lower than the one
\* held before, and whatever was done since for other ids.
C17_GetReturnsLastUpdate ==
    \A id \in StoreIds :
        storeOps[id].op = "update" =>
            get_watermark(store, id) = storeOps[id].sequence

\* An update that lowered the entry of one id while another id holds an
\* entry of its own.
C17_Witness ==
    \E id \in StoreIds, o \in StoreIds :
        /\ o # id
        /\ storeOps[id].op = "update"
        /\ storeOps[id].present
        /\ storeOps[id].sequence < storeOps[id].before
        /\ get_watermark(store, id) = storeOps[id].sequence
        /\ storeOps[o].op = "update"
        /\ get_watermark(store, o) > storeOps[id].sequence

\* C18: reset_watermark(id) removes the entry of id, so that
\* get_watermark(id) returns 0 as for an id never written, and leaves the
\* entries of all other ids as they were.
C18_ResetRemovesEntry ==
    [][\A id \in StoreIds :
          StoreReset(id) =>
              /\ id \notin DOMAIN store'
              /\ get_watermark(store', id) = 0
              /\ \A o \in StoreIds \ {id} :
                     /\ (o \in DOMAIN store') = (o \in DOMAIN store)
                     /\ get_watermark(store', o) = get_watermark(store, o)]_vars

\* A reset of an id that held a non-zero sequence, with another id still
\* holding its own.
C18_Witness ==
    \E id \in StoreIds, o \in StoreIds :
        /\ o # id
        /\ storeOps[id].op = "reset"
        /\ storeOps[id].present
        /\ storeOps[id].before > 0
        /\ id \notin DOMAIN store
        /\ o \in DOMAIN store
        /\ store[o] > 0
\* The sequence numbers of the Checkpoints a pipeline has received, in order.
IsCheckpoint(m) == m.type = "Checkpoint"
ReceivedSequences(p) ==
    LET cps == SelectSeq(received[p], IsCheckpoint)
    IN  [i \in 1..Len(cps) |-> cps[i].seq]

\* The i-th group of n out of the sequences 1..k.
Group(i, n, k) == [j \in 1..Min(n, k - (i - 1) * n) |-> (i - 1) * n + j]

\* C14: a Sequential pipeline with batch N that has received the
\* Checkpoints 1..K, with no process or commit error and no Paused, has
\* committed the consecutive groups of N in arrival order, each with the
\* maximum sequence of its group as its sequence; the rest is pending in
\* the batch while it runs and is committed as a last partial group once it
\* has shut down; the watermark is the sequence of the last commit, K at
\* the end.
C14_BatchesInGroupsOfN ==
    \A p \in Pipelines :
        LET K    == Len(ReceivedSequences(p))
            N    == SeqBatchSize
            full == K \div N
            shut == pstate[p] = "done"
        IN  (/\ pipeline_type = "Sequential"
             /\ pstate[p] # "none"
             /\ NeverErrored(p)
             /\ \A i \in 1..Len(received[p]) : received[p][i].type # "Paused"
             /\ ReceivedSequences(p) = [i \in 1..K |-> i])
            =>
            /\ Len(commits[p]) = full + (IF shut /\ K % N > 0 THEN 1 ELSE 0)
            /\ \A i \in 1..Len(commits[p]) :
                   /\ commits[p][i].items = Group(i, N, K)
                   /\ commits[p][i].sequence = Min(i * N, K)
            /\ watermark[p] = (IF shut THEN K ELSE full * N)
            /\ ~shut => batch[p] = Group(full + 1, N, K)

\* A pipeline that received 1..K and then Shutdown, K not a multiple of N,
\* and committed at least one full group and the partial one.
C14_Witness ==
    \E p \in Pipelines :
        LET K == Len(ReceivedSequences(p))
            n == Len(received[p])
        IN  /\ pipeline_type = "Sequential"
            /\ pstate[p] = "done"
            /\ NeverErrored(p)
            /\ n > 0
            /\ received[p][n].type = "Shutdown"
            /\ \A i \in 1..n : received[p][i].type # "Paused"
            /\ ReceivedSequences(p) = [i \in 1..K |-> i]
            /\ K > SeqBatchSize
            /\ K % SeqBatchSize > 0
            /\ Len(commits[p]) = K \div SeqBatchSize + 1
            /\ watermark[p] = K
\* C21: a checkpoint k that failed verification is never sent as a
\* Checkpoint message; the Regulator's watermark is at or above k once the
\* window that held k is done and the fetch loop is past k meanwhile; no
\* pipeline processes or commits k and no pipeline's watermark rests on k.
C21_UnverifiedIsSkipped ==
    \A k \in unverified :
        /\ k \notin sent
        /\ \A i \in 1..Len(chan) :
               ~(chan[i].type = "Checkpoint" /\ chan[i].seq = k)
        /\ bpc = "loop" => hw >= k
        /\ bpc = "fetch" => sequence > k
        /\ \A p \in Pipelines :
               /\ k \notin processed[p]
               /\ watermark[p] # k
               /\ \A i \in 1..Len(commits[p]) :
                      /\ commits[p][i].sequence # k
                      /\ k \notin Range(commits[p][i].items)

\* Checkpoint k failed verification, the Regulator went past it, and a
\* commit took a pipeline's watermark from below k to above k.
C21_Witness ==
    \E k \in unverified, p \in Pipelines :
        /\ hw >= k
        /\ \E i \in 1..Len(commits[p]) :
               /\ commits[p][i].sequence > k
               /\ (IF i = 1 THEN 0 ELSE commits[p][i - 1].sequence) < k
               /\ (IF i = 1 THEN 0 ELSE commits[p][i - 1].sequence) > 0
        /\ watermark[p] > k
\* C22: when Broadcaster::run is cancelled while pipelines are subscribed,
\* it publishes Shutdown as its last message.
C22_ShutdownOnCancel ==
    [][(Cancel /\ rx_cnt > 0) =>
          /\ Len(chan') = Len(chan) + 1
          /\ chan'[Len(chan')].type = "Shutdown"]_vars
\* C23: when wait_all has returned, every pipeline task that was spawned
\* has returned: with Ok(()) they all ran to their end, and with a task's
\* error none of the others is left running.
C23_WaitAllLeavesNoneRunning ==
    wpc \in {"ok", "err"} =>
        \A p \in PipelineIds : pstate[p] \in {"none", "done", "failed"}
\* C24: a pipeline whose recv reports that it lagged is still running
\* after that recv: it does not leave its loop.
C24_LagDoesNotEndPipeline ==
    [][\A p \in Pipelines :
          (pstate[p] = "running" /\ Lagged(p) /\ next'[p] # next[p]) =>
              pstate'[p] = "running"]_vars
\* C25: with two pipelines subscribed before the first send, the source
\* holding 1..MaxLatest and nothing failing, both pipelines reach watermark
\* MaxLatest; hence neither pipeline's run has ended, never to commit
\* again, with its watermark below MaxLatest.
C25_SlowPipelineReachesLatest ==
    (/\ \A q \in PipelineIds : pstate[q] # "none" /\ subPos[q] = 0
     /\ faults = 0
     /\ lc = MaxLatest)
    => \A p \in PipelineIds : pstate[p] = "done" => watermark[p] = MaxLatest
\* C26: for a Sequential pipeline, every Checkpoint it has received whose
\* sequence is at or below its watermark is part of a successful commit.
C26_DeliveredBelowWatermarkCommitted ==
    \A p \in Pipelines :
        pipeline_type = "Sequential" =>
            \A k \in Range(ReceivedSequences(p)) :
                k <= watermark[p] => CommitsWith(p, k) > 0
\* C27: the step in which process returns an error to a Sequential
\* pipeline leaves its batch, its watermark and its commits as they were
\* (the checkpoint is not in the batch), leaves it running, and changes
\* nothing of any other pipeline nor of the channel they read.
C27_ProcessErrorIsSkipped ==
    [][\A p \in PipelineIds :
          SeqProcessErr(p) =>
              /\ batch'[p] = batch[p]
              /\ NextMsg(p).seq \notin Range(batch'[p])
              /\ watermark'[p] = watermark[p]
              /\ commits'[p] = commits[p]
              /\ pstate'[p] = "running"
              /\ chan' = chan
              /\ \A q \in PipelineIds \ {p} :
                     /\ pstate'[q] = pstate[q]
                     /\ next'[q] = next[q]
                     /\ batch'[q] = batch[q]
                     /\ watermark'[q] = watermark[q]
                     /\ received'[q] = received[q]
                     /\ processed'[q] = processed[q]
                     /\ commits'[q] = commits[q]]_vars

\* Pipeline p had process fail for k, went on to commit a later
\* checkpoint, and the other pipeline committed k.
C27_Witness ==
    \E p \in PipelineIds, q \in PipelineIds, k \in 1..MaxLatest :
        /\ p # q
        /\ <<p, "process">> \in errored
        /\ k \in processed[p]
        /\ CommitsWith(p, k) = 0
        /\ k \notin Range(batch[p])
        /\ pstate[p] = "running"
        /\ \E j \in (k + 1)..MaxLatest : CommitsWith(p, j) > 0
        /\ CommitsWith(q, k) > 0
\* C28: when commit returns an error to a Sequential pipeline, the
\* pipeline keeps the batch to commit it again and goes on running, with
\* its watermark where it was.
C28_CommitErrorKeepsBatch ==
    [][\A p \in Pipelines :
          (<<p, "commit">> \notin errored /\ <<p, "commit">> \in errored'
           /\ pipeline_type = "Sequential") =>
              /\ watermark'[p] = watermark[p]
              /\ batch'[p] # <<>>
              /\ Range(batch[p]) \subseteq Range(batch'[p])
              /\ pstate'[p] = "running"]_vars

\* C29: a pipeline whose commit failed has ended with the error returned
\* from its run.
C29_CommitFailureIsFatal ==
    \A p \in Pipelines : <<p, "commit">> \in errored => pstate[p] = "failed"
\* C30: a Sequential pipeline that has received Paused passes no
\* Checkpoint it receives afterwards to process until it has received
\* Resumed.
C30_NoProcessingWhilePaused ==
    \A p \in Pipelines :
        \A i \in 1..Len(received[p]), j \in 1..Len(received[p]) :
            (/\ i < j
             /\ received[p][i].type = "Paused"
             /\ received[p][j].type = "Checkpoint"
             /\ \A m \in (i + 1)..(j - 1) : received[p][m].type # "Resumed")
            => received[p][j].seq \notin processed[p]
\* C31: the step in which a Sequential pipeline takes Shutdown, or finds
\* the channel closed, ends its run; when the run ends without error the
\* batch is empty and, if it was not, it has just been committed whole with
\* the maximum sequence in it, which is now the watermark.
C31_ShutdownCommitsPendingBatch ==
    [][\A p \in Pipelines :
          (SeqShutdownMsg(p) \/ SeqClosed(p)) =>
              /\ pstate'[p] \in {"done", "failed"}
              /\ pstate'[p] = "done" =>
                    /\ batch'[p] = <<>>
                    /\ IF batch[p] = <<>>
                       THEN commits'[p] = commits[p]
                       ELSE /\ commits'[p] =
                                  Append(commits[p],
                                         [sequence |-> SeqMax(batch[p]),
                                          items |-> batch[p]])
                            /\ watermark'[p] = SeqMax(batch[p])
                            /\ \A i \in 1..Len(batch[p]) :
                                   batch[p][i] <= SeqMax(batch[p])]_vars

\* A pipeline that found the channel closed while it held a partial batch
\* and committed it on its way out.
C31_Witness ==
    \E p \in Pipelines :
        LET n == Len(commits[p])
        IN  /\ pipeline_type = "Sequential"
            /\ closed
            /\ pstate[p] = "done"
            /\ next[p] = Len(chan)
            /\ Len(received[p]) > 0
            /\ received[p][Len(received[p])].type = "Checkpoint"
            /\ n > 0
            /\ Len(commits[p][n].items) < SeqBatchSize
            /\ watermark[p] = received[p][Len(received[p])].seq
            /\ batch[p] = <<>>
\* C32: a Concurrent pipeline whose run has returned after Shutdown has no
\* task in flight: every task it spawned has completed.
C32_ShutdownWaitsForTasks ==
    \A p \in Pipelines :
        (pipeline_type = "Concurrent" /\ pstate[p] = "done") => tasks[p] = {}

\* Shutdown was received while two tasks were in flight, and the run is
\* held in join_all.
C32_Witness ==
    \E p \in Pipelines :
        /\ pipeline_type = "Concurrent"
        /\ pstate[p] = "draining"
        /\ Len(received[p]) > 0
        /\ received[p][Len(received[p])].type = "Shutdown"
        /\ Cardinality(tasks[p]) = MaxConcurrent
\* C33: the Regulator's latest_checkpoint never decreases.
C33_LatestNeverDecreases ==
    [][lc' >= lc]_vars
C35_IdleWithoutSubscribers ==
    [][(/\ subscribers = <<>>
        /\ subscribers' = <<>>
        /\ \E p \in PipelineIds : pstate[p] # "none")
          => ~NextBatch]_vars
\* Sequence numbers the Broadcaster has requested from the DataSource.
Requested == sent \cup fetchFailed \cup unverified

\* C36: over a run of the Broadcaster the Regulator's watermark never
\* decreases, every window starts one above the end of the window before
\* it, no sequence number is requested from the DataSource twice, and the
\* Checkpoint messages in the channel are in strictly increasing order.
C36_WindowsContiguousNoRefetch ==
    [][/\ hw' >= hw
       /\ NextBatch => (start' = end + 1 /\ end' >= end)
       /\ (bpc = "fetch" /\ sequence' = sequence + 1) =>
              /\ sequence \notin Requested
              /\ \A k \in Requested : k < sequence
       /\ \A i, j \in 1..Len(chan') :
              (i < j /\ IsCheckpoint(chan'[i]) /\ IsCheckpoint(chan'[j]))
                  => chan'[i].seq < chan'[j].seq]_vars

\* Three windows have been fetched, the last one shorter than batch_size,
\* and the watermark has reached latest.
C36_Witness ==
    /\ bpc = "loop"
    /\ batch_size = MaxBatchSize
    /\ lc = MaxLatest
    /\ hw = lc
    /\ start > batch_size + 1
    /\ Requested = 1..MaxLatest
    /\ Cardinality(sent) >= 3
\* C37: every iteration of the Broadcaster's loop that took a window from
\* the Regulator ends with the watermark strictly above where it was.
C37_IterationRaisesWatermark ==
    [][UpdateRegulator => hw' > hw]_vars
\* C38: wait_all never keeps the lock on the task list while it is
\* suspended on a pipeline that still runs, so active_count and spawn_*
\* can always take the lock and complete.
C38_WaitAllDoesNotBlockOthers ==
    ~(/\ tasks_locked
      /\ waitq # <<>>
      /\ ~is_finished(waitq[Len(waitq)]))
\* C39: in a Concurrent pipeline the step in which a task's process or
\* commit call fails leaves the watermark and the commits as they were,
\* gives back the task's permit and leaves the run loop where it was; the
\* run never ends with an error.
C39_TaskFailureIsConfined ==
    [][\A p \in Pipelines :
          /\ (TaskProcessErr(p) \/ TaskCommitErr(p)) =>
                /\ watermark' = watermark
                /\ commits' = commits
                /\ Cardinality(tasks'[p]) = Cardinality(tasks[p]) - 1
                /\ pstate'[p] = pstate[p]
                /\ next'[p] = next[p]
          /\ pipeline_type = "Concurrent" => pstate'[p] # "failed"]_vars

\* A task failed, a checkpoint above the failed one was committed, and
\* the run returned Ok after Shutdown.
C39_Witness ==
    \E p \in Pipelines :
        /\ pipeline_type = "Concurrent"
        /\ pstate[p] = "done"
        /\ ~NeverErrored(p)
        /\ Len(received[p]) > 0
        /\ received[p][Len(received[p])].type = "Shutdown"
        /\ \E k \in processed[p] :
              /\ CommitsWith(p, k) = 0
              /\ \E j \in processed[p] : j > k /\ CommitsWith(p, j) = 1
              /\ watermark[p] > k
\* Sequence numbers in the successful commits of p.
Committed(p) ==
    UNION {Range(commits[p][i].items) : i \in 1..Len(commits[p])}

\* C40: a Sequential pipeline calls commit only with a batch that holds at
\* least one checkpoint: every successful commit holds checkpoints that
\* were processed and were in no commit before it, and leaves the batch
\* empty; a commit call that failed was made with a non-empty batch too.
C40_CommitNeverEmpty ==
    [][\A p \in Pipelines :
          /\ commits'[p] # commits[p] =>
                LET n == Len(commits'[p])
                    b == commits'[p][n].items
                IN  /\ n = Len(commits[p]) + 1
                    /\ SubSeq(commits'[p], 1, n - 1) = commits[p]
                    /\ b # <<>>
                    /\ Range(b) \subseteq processed'[p]
                    /\ Range(b) \cap Committed(p) = {}
                    /\ commits'[p][n].sequence \in Range(b)
                    /\ batch'[p] = <<>>
          /\ (<<p, "commit">> \notin errored /\ <<p, "commit">> \in errored') =>
                \/ batch[p] # <<>>
                \/ Ready(p) /\ NextMsg(p).type = "Checkpoint"]_vars

\* A running pipeline whose last message was Paused and whose last commit
\* is the partial batch it held then.
C40_Witness ==
    \E p \in Pipelines :
        LET n == Len(commits[p])
            r == Len(received[p])
        IN  /\ pipeline_type = "Sequential"
            /\ pstate[p] = "running"
            /\ r > 1
            /\ received[p][r].type = "Paused"
            /\ received[p][r - 1].type = "Checkpoint"
            /\ n > 1
            /\ Len(commits[p][n].items) < SeqBatchSize
            /\ commits[p][n].sequence = received[p][r - 1].seq
            /\ batch[p] = <<>>
====
